---- MODULE Spec2Model ----
(***************************************************************************)
(* Model of the note-minds mind-map view (src/components/MindMapView.tsx)  *)
(* together with the part of App.tsx and SourceManager.tsx that feeds it:  *)
(* the source list, the chat/mindmap view switch and the asynchronous      *)
(* generateMindMap call.                                                   *)
(*                                                                         *)
(* Strings that the code inspects character by character (source content)  *)
(* are sequences of one-character strings.  A nullable value of the code   *)
(* (mindMapData, error) is the empty sequence for null and a one-element   *)
(* sequence otherwise.  zoom is kept in tenths (1.0 is 10).  An optional    *)
(* field of MindMapData that is absent is a field the record does not      *)
(* have.  A node of the tree is named by its path, the sequence of the     *)
(* indices idx (from 0, the React keys of line 120) leading to it from the *)
(* root; the root is <<>>.                                                 *)
(***************************************************************************)
EXTENDS Integers, Sequences, FiniteSets, TLC

VARIABLES
    activeView,        \* App: 'chat' | 'mindmap'
    sources,           \* App: state.sources, sequence of [id, content]
    nextId,            \* number of sources created so far (crypto.randomUUID never repeats)
    selectedSourceId,  \* MindMapView state
    isLoading,         \* MindMapView state
    mindMapData,       \* MindMapView state: <<>> is null, <<T>> a tree
    error,             \* MindMapView state: <<>> is null, <<m>> a message
    zoom,              \* MindMapView state, in tenths
    requests,          \* generateMindMap promises not settled yet, oldest call first
    apiKey,            \* geminiService: whether process.env.API_KEY is set
    nodeState,         \* MindMapNode state of every mounted node, by its path
    listeners,         \* paths of the nodes whose handleClickOutside is on document
    messages,          \* App: state.messages, sequence of [id, role, text, isError]
    isChatLoading,     \* App: state.isChatLoading
    sends,             \* handleSendMessage calls awaiting streamChatResponse, oldest first
    sendCount,         \* number of handleSendMessage calls so far (crypto.randomUUID never repeats)
    input,             \* ChatArea state: the text of the input field
    lastEvent          \* what the last handler to run did, where a property needs it

vars == <<activeView, sources, nextId, selectedSourceId, isLoading,
          mindMapData, error, zoom, requests, apiKey, nodeState, listeners,
          messages, isChatLoading, sends, sendCount, input, lastEvent>>

\* what App keeps of the chat
chatState == <<messages, isChatLoading, sends, sendCount>>

\* the five useState cells of one MindMapView instance
viewState == <<selectedSourceId, isLoading, mindMapData, error, zoom>>

----------------------------------------------------------------------------
(* Bounds *)

MaxAdds == 2      \* sources ever added
MaxPending == 2   \* generateMindMap promises outstanding at once
MaxChildren == 4  \* children of one node of a generated tree
MaxSends == 2     \* handleSendMessage calls ever made
MaxChunks == 2    \* chunks of one streamed answer

----------------------------------------------------------------------------
(* Data *)

\* ids handed out by crypto.randomUUID, in order of creation
IdNames == <<"a", "b", "c", "d">>

\* contents a source can have: handleAddText / handleFileUpload refuse a
\* content whose trim() is empty
Contents == { <<"X">>, <<"Y", "\n">> }

\* join('\n') in place of join('\n\n')
Separator_SingleNewline == <<"\n">>

Separator == <<"\n", "\n">>

ErrorMessage == "Failed to generate mind map. Please try again."

\* the messages of the errors generateMindMap rejects with; the last one
\* stands for whatever ai.models.generateContent rejects with
Causes == { "API Key is missing.",
            "No response from model",
            "Failed to generate a valid mind map structure.",
            "network error" }

MindMapData(label, description, children) ==
    [label |-> label, description |-> description, children |-> children]

\* a MindMapData without the optional children field
Leaf(label, description) == [label |-> label, description |-> description]

TreeGeography ==
    MindMapData("Geography", <<>>,
        << Leaf("France", <<"European country">>) >>)

TreeScience ==
    MindMapData("Science", <<"All of it">>,
        << MindMapData("Physics", <<>>,
              << Leaf("Optics", <<"Light">>) >>),
           MindMapData("Chemistry", <<" ">>, <<>>),
           Leaf("Biology", <<"">>) >>)

Trees == { TreeGeography, TreeScience }

\* a parent with K children that are all alike: no description, no children
PlainStar(K) ==
    MindMapData("Topic", <<>>, [i \in 1..K |-> Leaf("Item", <<>>)])

\* a parent with K children that differ in label, description and subtree
MixedStar(K) ==
    MindMapData("Topic", <<"About">>,
        [i \in 1..K |->
            IF i % 2 = 1
            THEN MindMapData("Part", <<"Detail">>, << Leaf("Sub", <<>>) >>)
            ELSE Leaf("Note", <<"Remark">>)])

\* trees with a parent of 1 to MaxChildren children
Shapes == { PlainStar(K) : K \in 1..MaxChildren } \cup
          { MixedStar(K) : K \in 1..MaxChildren }

----------------------------------------------------------------------------
(* Pure functions *)

IsWhitespace(c) == c \in {" ", "\n", "\t"}

RECURSIVE TrimStart(_)
TrimStart(s) ==
    IF s = <<>> THEN <<>>
    ELSE IF IsWhitespace(Head(s)) THEN TrimStart(Tail(s)) ELSE s

RECURSIVE TrimEnd(_)
TrimEnd(s) ==
    IF s = <<>> THEN <<>>
    ELSE IF IsWhitespace(s[Len(s)]) THEN TrimEnd(SubSeq(s, 1, Len(s) - 1)) ELSE s

\* String.prototype.trim
Trim(s) == TrimEnd(TrimStart(s))

\* Array.prototype.join
RECURSIVE Join(_, _)
Join(strs, sep) ==
    IF strs = <<>> THEN <<>>
    ELSE IF Len(strs) = 1 THEN strs[1]
    ELSE strs[1] \o sep \o Join(Tail(strs), sep)

\* sources.map(s => s.content)
MapContent(srcs) == [i \in 1..Len(srcs) |-> srcs[i].content]

\* sources.find(s => s.id === id): the matching sources, first one first
FindAll(srcs, id) == SelectSeq(srcs, LAMBDA s : s.id = id)

\* lines 195-201 of handleGenerate
ContentToAnalyze(srcs, key) ==
    IF key = "all"
    THEN Join(MapContent(srcs), Separator)
    ELSE IF FindAll(srcs, key) # <<>> THEN FindAll(srcs, key)[1].content ELSE <<>>

SourceIds(srcs) == { srcs[i].id : i \in 1..Len(srcs) }

\* line 35: data.children && data.children.length > 0
hasChildren(data) ==
    IF "children" \in DOMAIN data THEN Len(data.children) > 0 ELSE FALSE

\* the data prop of the node at a path: the root has the tree, the child
\* with key idx has data.children[idx] (lines 114, 170)
RECURSIVE NodeAt(_, _)
NodeAt(tree, path) ==
    IF path = <<>> THEN tree
    ELSE NodeAt(tree.children[Head(path) + 1], Tail(path))

\* useState(false) for isExpanded
DefaultNode_Collapsed == [isExpanded |-> FALSE, showInfo |-> FALSE]

\* lines 16-17: useState(true), useState(false)
DefaultNode == [isExpanded |-> TRUE, showInfo |-> FALSE]

\* no MindMapNode is mounted
NoNodes == [p \in {} |-> DefaultNode]

\* the state a node at path has once React has rendered: the state of the
\* instance already mounted at that position, the initial state otherwise
StateAt(old, path) == IF path \in DOMAIN old THEN old[path] ELSE DefaultNode

\* the children section rendered whatever isExpanded is
RECURSIVE RenderedPaths_IgnoresExpanded(_, _, _)
RenderedPaths_IgnoresExpanded(tree, old, path) ==
    {path} \cup
        IF hasChildren(NodeAt(tree, path))
        THEN UNION { RenderedPaths_IgnoresExpanded(tree, old, Append(path, idx)) :
                        idx \in 0..(Len(NodeAt(tree, path).children) - 1) }
        ELSE {}

\* data.children.map stopping one child short
RECURSIVE RenderedPaths_SkipsLastChild(_, _, _)
RenderedPaths_SkipsLastChild(tree, old, path) ==
    {path} \cup
        IF hasChildren(NodeAt(tree, path)) /\ StateAt(old, path).isExpanded
        THEN UNION { RenderedPaths_SkipsLastChild(tree, old, Append(path, idx)) :
                        idx \in 0..(Len(NodeAt(tree, path).children) - 2) }
        ELSE {}

\* lines 104-178: the nodes MindMapNode renders at and below a path; the
\* children are rendered when hasChildren && isExpanded
RECURSIVE RenderedPaths(_, _, _)
RenderedPaths(tree, old, path) ==
    {path} \cup
        IF hasChildren(NodeAt(tree, path)) /\ StateAt(old, path).isExpanded
        THEN UNION { RenderedPaths(tree, old, Append(path, idx)) :
                        idx \in 0..(Len(NodeAt(tree, path).children) - 1) }
        ELSE {}

\* React reconciliation of <MindMapNode data={tree} isRoot /> against the
\* instances mounted so far: an instance stays where element type and key
\* are as before, a new one starts from useState's initial values
Render(tree, old) ==
    [path \in RenderedPaths(tree, old, <<>>) |-> StateAt(old, path)]

\* the cleanup of lines 30-32 not run when a node is unmounted
RunEffects_LeakOnUnmount(old, new, registered) ==
    (registered \ DOMAIN new) \cup
    { path \in DOMAIN new :
        IF path \in DOMAIN old /\ old[path].showInfo = new[path].showInfo
        THEN path \in registered
        ELSE new[path].showInfo }

\* lines 21-33, useEffect(..., [showInfo]): on mount and whenever showInfo
\* changed the cleanup of the previous run removes the listener and the
\* effect adds it if showInfo; on unmount the cleanup removes it
RunEffects(old, new, registered) ==
    { path \in DOMAIN new :
        IF path \in DOMAIN old /\ old[path].showInfo = new[path].showInfo
        THEN path \in registered
        ELSE new[path].showInfo }

\* a nodeRef that holds the whole document
Contains_WholeDocument(owner, target) == TRUE

\* line 23: nodeRef.current.contains(event.target) for the node at owner;
\* nodeRef (lines 41-101) holds the card, the popup and the expand toggle
\* of that node and none of its children.  A target is <<path>> for an
\* element of the region of the node at path, <<>> for any other element.
Contains(owner, target) == target = <<owner>>

\* the text of line 80 put in place of a missing description
Placeholder == "No specific details available."

\* {data.description}: no text when there is no description
PopupText_NoFallback(data) ==
    IF data.description = <<>> THEN "" ELSE data.description[1]

\* line 80, {data.description || "No specific details available."}: the
\* left operand unless it is undefined or the empty string
PopupText(data) ==
    IF data.description = <<>> \/ data.description = <<"">>
    THEN Placeholder
    ELSE data.description[1]

\* line 115
isFirst(idx) == idx = 0

\* idx === data.children.length
isLast_OffByOne(idx, children) == idx = Len(children)

\* line 116
isLast(idx, children) == idx = Len(children) - 1

\* line 117
isOnly(children) == Len(children) = 1

\* an absolutely positioned <div> of the connector block, by its classes:
\* where its top or bottom edge is, which side it is anchored to, its width,
\* its height and the borders it draws (a line filled by bg-slate-300 has
\* no border)
Element(edge, side, width, height, borders) ==
    [edge |-> edge, side |-> side, width |-> width, height |-> height,
     borders |-> borders]

\* lines 134-160 rendered whatever isOnly is
ConnectorBlock_SpineForOnly(idx, children) ==
    { Element("top-1/2", "right-0", "w-3", "h-px", {}) }
    \cup (IF ~isFirst(idx)
          THEN { Element("top-0", "left-0", "w-px", "h-1/2", {}) } ELSE {})
    \cup (IF ~isLast(idx, children)
          THEN { Element("top-1/2", "left-0", "w-px", "h-1/2", {}) } ELSE {})
    \cup (IF isFirst(idx)
          THEN { Element("top-1/2", "left-0", "w-3", "h-3",
                         {"border-t", "border-l"}) } ELSE {})
    \cup (IF isLast(idx, children)
          THEN { Element("top-1/2", "left-0", "w-3", "h-px", {}),
                 Element("bottom-1/2", "left-0", "w-3", "h-3",
                         {"border-b", "border-l"}) } ELSE {})
    \cup (IF ~isFirst(idx) /\ ~isLast(idx, children)
          THEN { Element("top-1/2", "left-0", "w-3", "h-px", {}) } ELSE {})
    \cup (IF isOnly(children)
          THEN { Element("top-1/2", "left-0", "w-full", "h-px", {}) } ELSE {})

\* lines 126-166: the elements of the connector block left of the child
\* with key idx
ConnectorBlock(idx, children) ==
    { Element("top-1/2", "right-0", "w-3", "h-px", {}) }
    \cup (IF ~isOnly(children)
          THEN (IF ~isFirst(idx)
                THEN { Element("top-0", "left-0", "w-px", "h-1/2", {}) } ELSE {})
               \cup (IF ~isLast(idx, children)
                     THEN { Element("top-1/2", "left-0", "w-px", "h-1/2", {}) }
                     ELSE {})
               \cup (IF isFirst(idx)
                     THEN { Element("top-1/2", "left-0", "w-3", "h-3",
                                    {"border-t", "border-l"}) } ELSE {})
               \cup (IF isLast(idx, children)
                     THEN { Element("top-1/2", "left-0", "w-3", "h-px", {}),
                            Element("bottom-1/2", "left-0", "w-3", "h-3",
                                    {"border-b", "border-l"}) } ELSE {})
               \cup (IF ~isFirst(idx) /\ ~isLast(idx, children)
                     THEN { Element("top-1/2", "left-0", "w-3", "h-px", {}) }
                     ELSE {})
          ELSE {})
    \cup (IF isOnly(children)
          THEN { Element("top-1/2", "left-0", "w-full", "h-px", {}) } ELSE {})

----------------------------------------------------------------------------
(* State *)

Mounted == activeView = "mindmap"

Init ==
    /\ activeView = "chat"
    /\ sources = <<>>
    /\ nextId = 0
    /\ selectedSourceId = ""
    /\ isLoading = FALSE
    /\ mindMapData = <<>>
    /\ error = <<>>
    /\ zoom = 10
    /\ requests = <<>>
    /\ apiKey \in BOOLEAN
    /\ nodeState = NoNodes
    /\ listeners = {}
    /\ messages = <<>>
    /\ isChatLoading = FALSE
    /\ sends = <<>>
    /\ sendCount = 0
    /\ input = <<>>
    /\ lastEvent = [op |-> "init"]

\* what lastEvent holds after a handler of which no property needs more
Other == [op |-> "other"]

\* line 221 and lines 310-317: what the canvas holds a MindMapNode for, <<>>
\* when it holds none
CanvasTree(view, srcs, data) ==
    IF view = "mindmap" /\ Len(srcs) > 0 THEN data ELSE <<>>

\* the connector block rendered left of every mounted child (lines 114-166),
\* from the index of the child and the children array of its parent
Connectors ==
    LET shown == CanvasTree(activeView, sources, mindMapData) IN
    [path \in DOMAIN nodeState \ {<<>>} |->
        ConnectorBlock(path[Len(path)],
                       NodeAt(shown[1], SubSeq(path, 1, Len(path) - 1)).children)]

\* the text in the popup of every node whose popup is rendered (lines 68-84)
Popups ==
    LET shown == CanvasTree(activeView, sources, mindMapData) IN
    [path \in { p \in DOMAIN nodeState : nodeState[p].showInfo } |->
        PopupText(NodeAt(shown[1], path))]

\* React renders and commits after a handler changed state: the node tree
\* is reconciled with the new props and the effects run.  Given the tree it
\* has rendered already, React keeps every instance and runs no effect.
Commit ==
    LET shown == CanvasTree(activeView', sources', mindMapData') IN
    IF shown # <<>> /\ shown = CanvasTree(activeView, sources, mindMapData)
    THEN UNCHANGED <<nodeState, listeners>>
    ELSE /\ nodeState' = IF shown = <<>> THEN NoNodes
                            ELSE Render(shown[1], nodeState)
         /\ listeners' = RunEffects(nodeState, nodeState', listeners)

\* Without an API key generateMindMap throws before its first await, so the
\* promise is already rejected when handleGenerate awaits it and the catch
\* block runs as a microtask, before the browser delivers another event;
\* streamChatResponse does the same (line 155 of the service).
NoMicrotaskPending == apiKey \/ (requests = <<>> /\ sends = <<>>)

----------------------------------------------------------------------------
(* App.tsx and SourceManager.tsx: source list and view switch *)

\* handleAddText / handleFileUpload followed by App.handleAddSource
handleAddSource(content) ==
    /\ NoMicrotaskPending
    /\ nextId < MaxAdds
    /\ nextId' = nextId + 1
    /\ sources' = Append(sources, [id |-> IdNames[nextId + 1], content |-> content])
    /\ lastEvent' = Other
    /\ UNCHANGED <<activeView, viewState, requests, apiKey>>
    /\ UNCHANGED <<chatState, input>>
    /\ Commit

\* a removal that also clears the selection of the removed source
handleRemoveSource_ResetsSelection(id) ==
    /\ NoMicrotaskPending
    /\ id \in SourceIds(sources)
    /\ sources' = SelectSeq(sources, LAMBDA s : s.id # id)
    /\ selectedSourceId' = IF selectedSourceId = id THEN "" ELSE selectedSourceId
    /\ lastEvent' = Other
    /\ UNCHANGED <<activeView, nextId, isLoading, mindMapData, error, zoom,
                   requests, apiKey>>
    /\ UNCHANGED <<chatState, input>>
    /\ Commit

\* App.handleRemoveSource: prev.sources.filter(s => s.id !== id)
handleRemoveSource(id) ==
    /\ NoMicrotaskPending
    /\ id \in SourceIds(sources)
    /\ sources' = SelectSeq(sources, LAMBDA s : s.id # id)
    /\ lastEvent' = Other
    /\ UNCHANGED <<activeView, nextId, viewState, requests, apiKey>>
    /\ UNCHANGED <<chatState, input>>
    /\ Commit

\* the useState initial values of a MindMapView instance (lines 184-188)
FreshViewState ==
    /\ selectedSourceId' = ""
    /\ isLoading' = FALSE
    /\ mindMapData' = <<>>
    /\ error' = <<>>
    /\ zoom' = 10

\* the calls of the instance that is unmounted outlive it: their promises
\* stay pending, their setters belong to an instance that is gone
Orphaned(reqs) ==
    [i \in 1..Len(reqs) |-> [live |-> FALSE, afterFailure |-> FALSE]]

\* what lastEvent keeps of a view switch: of one that unmounts a
\* MindMapView whose state is off the initial values, whether a tree was
\* shown and whether zoom was off 1.0; of one that mounts a MindMapView
\* right after such an unmount, that unmount
SwitchEvent(view) ==
    IF view = "chat" /\ activeView = "mindmap"
            /\ viewState # <<"", FALSE, <<>>, <<>>, 10>>
    THEN [op |-> "unmount", hadTree |-> mindMapData # <<>>,
          zoomed |-> zoom # 10]
    ELSE IF view = "mindmap" /\ activeView = "chat" /\ lastEvent.op = "unmount"
    THEN [op |-> "mount", after |-> lastEvent]
    ELSE Other

\* the MindMapView kept mounted and hidden while the chat is shown
onViewChange_KeepsMounted(view) ==
    /\ NoMicrotaskPending
    /\ activeView' = view
    /\ lastEvent' = SwitchEvent(view)
    /\ UNCHANGED <<viewState, requests>>
    /\ UNCHANGED <<sources, nextId, apiKey>>
    /\ UNCHANGED chatState
    /\ input' = IF view = activeView THEN input ELSE <<>>
    /\ Commit

\* SourceManager navigation buttons: onViewChange = setActiveView.  Leaving
\* 'mindmap' unmounts the MindMapView instance and drops its state; entering
\* it mounts a new instance.
onViewChange(view) ==
    /\ NoMicrotaskPending
    /\ activeView' = view
    /\ lastEvent' = SwitchEvent(view)
    /\ IF view = activeView
       THEN UNCHANGED <<viewState, requests>>
       ELSE /\ FreshViewState
            /\ requests' = IF view = "chat" THEN Orphaned(requests) ELSE requests
    /\ UNCHANGED <<sources, nextId, apiKey>>
    /\ UNCHANGED chatState
    /\ input' = IF view = activeView THEN input ELSE <<>>
    /\ Commit

----------------------------------------------------------------------------
(* MindMapView.tsx: the viewport controller *)

\* the controls bar and canvas are rendered only past the early return of
\* line 221
ControlsRendered == Mounted /\ Len(sources) > 0

\* what lastEvent keeps of a change of the selection made while a call is
\* awaited or a tree is shown
SelectedEvent(key) ==
    IF key # selectedSourceId /\ (isLoading \/ mindMapData # <<>>)
    THEN [op |-> "selectSource"]
    ELSE Other

\* onChange also calling setMindMapData(null)
selectSource_ClearsTree(key) ==
    /\ NoMicrotaskPending
    /\ ControlsRendered
    /\ key \in {"all"} \cup SourceIds(sources)
    /\ selectedSourceId' = key
    /\ mindMapData' = <<>>
    /\ lastEvent' = SelectedEvent(key)
    /\ UNCHANGED <<activeView, sources, nextId, isLoading,
                   error, zoom, requests, apiKey>>
    /\ UNCHANGED <<chatState, input>>
    /\ Commit

\* lines 248-258, <select onChange>: setSelectedSourceId(e.target.value);
\* the options are "all" and one per source, the "" option is disabled, and
\* the <select> itself is never disabled
selectSource(key) ==
    /\ NoMicrotaskPending
    /\ ControlsRendered
    /\ key \in {"all"} \cup SourceIds(sources)
    /\ selectedSourceId' = key
    /\ lastEvent' = SelectedEvent(key)
    /\ UNCHANGED <<activeView, sources, nextId, isLoading, mindMapData,
                   error, zoom, requests, apiKey, nodeState, listeners>>
    /\ UNCHANGED <<chatState, input>>

\* the early return of line 203 left out
IsBlank_Never(content) == FALSE

\* line 203: !contentToAnalyze.trim()
IsBlank(content) == Trim(content) = <<>>

\* status of the view as lines 275-317 render it
StatusAtCall ==
    IF isLoading THEN "Loading"
    ELSE IF error # <<>> THEN "Failed"
    ELSE IF mindMapData # <<>> THEN "Ready"
    ELSE "Idle"

\* The promise of a new generateMindMap call.  live says that the instance
\* awaiting it is still mounted; afterFailure, kept for the statement of
\* properties only, that this instance showed a failure when it made the call.
NewCall == [live |-> TRUE, afterFailure |-> StatusAtCall = "Failed"]

\* what lastEvent keeps of an accepted handleGenerate: the content handed to
\* generateMindMap, the status the view showed, whether zoom was off 1.0 and
\* whether a mounted node was off its initial state
StartedEvent(content) ==
    [op |-> "handleGenerate", started |-> TRUE,
     content |-> content, from |-> StatusAtCall,
     zoomed |-> zoom # 10,
     nodesChanged |-> \E path \in DOMAIN nodeState :
                            nodeState[path] # DefaultNode]

\* setMindMapData(null) of line 207 left out
StartGeneration_KeepsTree(content) ==
    /\ Len(requests) < MaxPending
    /\ isLoading' = TRUE
    /\ error' = <<>>
    /\ zoom' = 10
    /\ requests' = Append(requests, NewCall)
    /\ lastEvent' = StartedEvent(content)
    /\ UNCHANGED <<selectedSourceId, mindMapData>>

\* setError(null) of line 206 left out
StartGeneration_KeepsError(content) ==
    /\ Len(requests) < MaxPending
    /\ isLoading' = TRUE
    /\ mindMapData' = <<>>
    /\ zoom' = 10
    /\ requests' = Append(requests, NewCall)
    /\ lastEvent' = StartedEvent(content)
    /\ UNCHANGED <<selectedSourceId, error>>

\* setZoom(1) of line 208 left out
StartGeneration_KeepsZoom(content) ==
    /\ Len(requests) < MaxPending
    /\ isLoading' = TRUE
    /\ error' = <<>>
    /\ mindMapData' = <<>>
    /\ requests' = Append(requests, NewCall)
    /\ lastEvent' = StartedEvent(content)
    /\ UNCHANGED <<selectedSourceId, zoom>>

\* lines 205-211: the four setters and the call generateMindMap(content)
StartGeneration(content) ==
    /\ Len(requests) < MaxPending
    /\ isLoading' = TRUE
    /\ error' = <<>>
    /\ mindMapData' = <<>>
    /\ zoom' = 10
    /\ requests' = Append(requests, NewCall)
    /\ lastEvent' = StartedEvent(content)
    /\ UNCHANGED selectedSourceId

\* an unset selection taken to mean every source
handleGenerate_EmptyMeansAll ==
    /\ Mounted
    /\ LET key == IF selectedSourceId = "" THEN "all" ELSE selectedSourceId
           content == ContentToAnalyze(sources, key) IN
       IF IsBlank(content)
       THEN /\ lastEvent' = [op |-> "handleGenerate", started |-> FALSE]
            /\ UNCHANGED <<viewState, requests>>
       ELSE StartGeneration(content)
    /\ UNCHANGED <<activeView, sources, nextId, apiKey>>
    /\ UNCHANGED <<chatState, input>>
    /\ Commit

\* handleGenerate up to its await
handleGenerate ==
    /\ Mounted
    /\ LET content == ContentToAnalyze(sources, selectedSourceId) IN
       IF selectedSourceId = "" \/ IsBlank(content)
       THEN /\ lastEvent' = [op |-> "handleGenerate", started |-> FALSE]
            /\ UNCHANGED <<viewState, requests>>
       ELSE StartGeneration(content)
    /\ UNCHANGED <<activeView, sources, nextId, apiKey>>
    /\ UNCHANGED <<chatState, input>>
    /\ Commit

\* disabled={!selectedSourceId}
GenerateEnabled_WhileLoading == ControlsRendered /\ selectedSourceId # ""

\* the Generate button: disabled={!selectedSourceId || isLoading}
GenerateEnabled == ControlsRendered /\ selectedSourceId # "" /\ ~isLoading

clickGenerate ==
    /\ NoMicrotaskPending
    /\ GenerateEnabled
    /\ handleGenerate

\* handleGenerate invoked whatever the button shows
callGenerate ==
    /\ NoMicrotaskPending
    /\ ~GenerateEnabled
    /\ handleGenerate

\* geminiService.generateMindMap (lines 256-301): the promise it returns for
\* what ai.models.generateContent did.  The parsed JSON is taken to be a
\* MindMapData, as the cast of line 296 says.
generateMindMap(key, response) ==
    IF ~key THEN [ok |-> FALSE, cause |-> "API Key is missing."]
    ELSE IF response.kind = "rejected" THEN [ok |-> FALSE, cause |-> "network error"]
    ELSE IF response.kind = "empty" THEN [ok |-> FALSE, cause |-> "No response from model"]
    ELSE IF response.kind = "invalid"
         THEN [ok |-> FALSE, cause |-> "Failed to generate a valid mind map structure."]
    ELSE [ok |-> TRUE, data |-> response.tree]

\* what ai.models.generateContent can do: reject, answer without text,
\* answer with text that is not JSON, answer with the JSON of a tree
Responses ==
    { [kind |-> "rejected"], [kind |-> "empty"], [kind |-> "invalid"] }
    \cup { [kind |-> "json", tree |-> t] : t \in Trees }

\* the response applied to whichever instance is mounted
Applies_AnyInstance(r) == Mounted

\* a setter of an instance acts on the mounted instance only: React drops
\* the updates of an unmounted component
Applies(r) == Mounted /\ r.live

\* the pending promises without the i-th
Remove(reqs, i) == SubSeq(reqs, 1, i - 1) \o SubSeq(reqs, i + 1, Len(reqs))

\* setIsLoading(false) of the finally block left out
OnResolve_NoFinally(i, data) ==
    /\ requests' = Remove(requests, i)
    /\ IF Applies(requests[i])
       THEN /\ mindMapData' = <<data>>
            /\ UNCHANGED <<selectedSourceId, isLoading, error, zoom>>
       ELSE UNCHANGED viewState

\* the continuation also calling setSelectedSourceId('')
OnResolve_ResetsSelection(i, data) ==
    /\ requests' = Remove(requests, i)
    /\ IF Applies(requests[i])
       THEN /\ mindMapData' = <<data>>
            /\ isLoading' = FALSE
            /\ selectedSourceId' = ""
            /\ UNCHANGED <<error, zoom>>
       ELSE UNCHANGED viewState

\* lines 212 and 217 after the await of the i-th pending call resolved
OnResolve(i, data) ==
    /\ requests' = Remove(requests, i)
    /\ IF Applies(requests[i])
       THEN /\ mindMapData' = <<data>>
            /\ isLoading' = FALSE
            /\ UNCHANGED <<selectedSourceId, error, zoom>>
       ELSE UNCHANGED viewState

\* the catch block calling generateMindMap again
OnReject_Retries(i, cause) ==
    /\ requests' = IF Applies(requests[i])
                   THEN Append(Remove(requests, i), requests[i])
                   ELSE Remove(requests, i)
    /\ UNCHANGED viewState

\* setError(err.message) in place of the fixed message
OnReject_ShowsCause(i, cause) ==
    /\ requests' = Remove(requests, i)
    /\ IF Applies(requests[i])
       THEN /\ error' = <<cause>>
            /\ isLoading' = FALSE
            /\ UNCHANGED <<selectedSourceId, mindMapData, zoom>>
       ELSE UNCHANGED viewState

\* setIsLoading(false) in the try block only, with no finally
OnReject_NoFinally(i, cause) ==
    /\ requests' = Remove(requests, i)
    /\ IF Applies(requests[i])
       THEN /\ error' = <<ErrorMessage>>
            /\ UNCHANGED <<selectedSourceId, isLoading, mindMapData, zoom>>
       ELSE UNCHANGED viewState

\* lines 213-217 after the await of the i-th pending call rejected
OnReject(i, cause) ==
    /\ requests' = Remove(requests, i)
    /\ IF Applies(requests[i])
       THEN /\ error' = <<ErrorMessage>>
            /\ isLoading' = FALSE
            /\ UNCHANGED <<selectedSourceId, mindMapData, zoom>>
       ELSE UNCHANGED viewState

\* the handleGenerate that issued the i-th pending call, if it was the
\* handler that ran last: <<its event>>, and <<>> otherwise
IssuedJustBefore(i) ==
    IF /\ lastEvent.op = "handleGenerate"
       /\ lastEvent.started
       /\ i = Len(requests)
       /\ requests[i].live
    THEN <<lastEvent>> ELSE <<>>

\* the continuation of handleGenerate when the i-th pending promise settles;
\* superseded says that a call issued after it is still pending
settleGenerate(i, response) ==
    /\ i \in 1..Len(requests)
    /\ LET result == generateMindMap(apiKey, response) IN
       IF result.ok
       THEN /\ OnResolve(i, result.data)
            /\ lastEvent' = [op |-> "resolve", call |-> requests[i],
                             superseded |-> i < Len(requests),
                             data |-> result.data,
                             after |-> IssuedJustBefore(i)]
       ELSE /\ OnReject(i, result.cause)
            /\ lastEvent' = [op |-> "reject", call |-> requests[i],
                             superseded |-> i < Len(requests),
                             cause |-> result.cause,
                             after |-> IssuedJustBefore(i)]
    /\ UNCHANGED <<activeView, sources, nextId, apiKey>>
    /\ UNCHANGED <<chatState, input>>
    /\ Commit

\* the zoom buttons rendered whether a tree is shown or not
ZoomRendered_Always == ControlsRendered

\* the zoom buttons exist while a tree is shown (line 296)
ZoomRendered == ControlsRendered /\ mindMapData # <<>>

Min(a, b) == IF a < b THEN a ELSE b
Max(a, b) == IF a > b THEN a ELSE b

\* Math.min of line 298 left out
zoomIn_Uncapped ==
    /\ NoMicrotaskPending
    /\ ZoomRendered
    /\ zoom' = zoom + 1
    /\ lastEvent' = Other
    /\ UNCHANGED <<activeView, sources, nextId, selectedSourceId, isLoading,
                   mindMapData, error, requests, apiKey, nodeState, listeners>>
    /\ UNCHANGED <<chatState, input>>

\* line 298: setZoom(z => Math.min(z + 0.1, 2))
zoomIn ==
    /\ NoMicrotaskPending
    /\ ZoomRendered
    /\ zoom' = Min(zoom + 1, 20)
    /\ lastEvent' = Other
    /\ UNCHANGED <<activeView, sources, nextId, selectedSourceId, isLoading,
                   mindMapData, error, requests, apiKey, nodeState, listeners>>
    /\ UNCHANGED <<chatState, input>>

\* line 301: setZoom(z => Math.max(z - 0.1, 0.5))
zoomOut ==
    /\ NoMicrotaskPending
    /\ ZoomRendered
    /\ zoom' = Max(zoom - 1, 5)
    /\ lastEvent' = Other
    /\ UNCHANGED <<activeView, sources, nextId, selectedSourceId, isLoading,
                   mindMapData, error, requests, apiKey, nodeState, listeners>>
    /\ UNCHANGED <<chatState, input>>

\* a reset that takes one step back towards 1.0
resetZoom_OneStepBack ==
    /\ NoMicrotaskPending
    /\ ZoomRendered
    /\ zoom' = IF zoom > 10 THEN zoom - 1 ELSE IF zoom < 10 THEN zoom + 1 ELSE zoom
    /\ lastEvent' = [op |-> "resetZoom", changed |-> zoom # 10]
    /\ UNCHANGED <<activeView, sources, nextId, selectedSourceId, isLoading,
                   mindMapData, error, requests, apiKey, nodeState, listeners>>
    /\ UNCHANGED <<chatState, input>>

\* line 304: setZoom(1)
resetZoom ==
    /\ NoMicrotaskPending
    /\ ZoomRendered
    /\ zoom' = 10
    /\ lastEvent' = [op |-> "resetZoom", changed |-> zoom # 10]
    /\ UNCHANGED <<activeView, sources, nextId, selectedSourceId, isLoading,
                   mindMapData, error, requests, apiKey, nodeState, listeners>>
    /\ UNCHANGED <<chatState, input>>

----------------------------------------------------------------------------
(* MindMapView.tsx: the node views of the canvas *)

\* path d names a node strictly below the node at path
IsBelow(d, path) == Len(d) > Len(path) /\ SubSeq(d, 1, Len(path)) = path

\* a setter of a MindMapNode ran: React renders the nodes again from the
\* new state and runs the effects; nothing of MindMapView or App changes
SetNodeState(new) ==
    /\ nodeState' =
            LET shown == CanvasTree(activeView, sources, mindMapData) IN
            IF shown = <<>> THEN NoNodes ELSE Render(shown[1], new)
    /\ listeners' = RunEffects(nodeState, nodeState', listeners)
    /\ UNCHANGED <<activeView, sources, nextId, viewState, requests, apiKey>>
    /\ UNCHANGED <<chatState, input>>

\* an info button that also expands its node
ToggleInfo_AlsoExpands(state) ==
    [isExpanded |-> TRUE, showInfo |-> ~state.showInfo]

\* line 59: setShowInfo(!showInfo)
ToggleInfo(state) == [state EXCEPT !.showInfo = ~state.showInfo]

\* onClick of the info button (lines 58-63) of the node at path
toggleInfoAt(path) ==
    /\ NoMicrotaskPending
    /\ path \in DOMAIN nodeState
    /\ SetNodeState([nodeState EXCEPT ![path] = ToggleInfo(nodeState[path])])

\* a click on the info button, however it was made
clickInfo(path) ==
    /\ toggleInfoAt(path)
    /\ lastEvent' = Other

\* the close button of the popup (lines 72-77), rendered while showInfo
clickClose(path) ==
    /\ NoMicrotaskPending
    /\ path \in DOMAIN nodeState
    /\ nodeState[path].showInfo
    /\ SetNodeState([nodeState EXCEPT ![path].showInfo = FALSE])
    /\ lastEvent' = Other

\* the toggle rendered on every node
ToggleRendered_OnEveryNode(data) == TRUE

\* line 87: the expand/collapse button is rendered when hasChildren
ToggleRendered(data) == hasChildren(data)

\* an expand toggle that also closes the popup of its node
ToggleExpanded_ClosesPopup(state) ==
    [isExpanded |-> ~state.isExpanded, showInfo |-> FALSE]

\* line 89: setIsExpanded(!isExpanded)
ToggleExpanded(state) == [state EXCEPT !.isExpanded = ~state.isExpanded]

\* the expand/collapse button (lines 87-100).  lastEvent keeps, of a
\* collapse, whether the popup of the node was open and whether a node
\* below it had its popup open or was collapsed; of an expand, the collapse
\* of the same node if that was the handler before it.
clickExpand(path) ==
    /\ NoMicrotaskPending
    /\ path \in DOMAIN nodeState
    /\ ToggleRendered(NodeAt(mindMapData[1], path))
    /\ SetNodeState([nodeState EXCEPT ![path] = ToggleExpanded(nodeState[path])])
    /\ lastEvent' =
            IF nodeState[path].isExpanded
            THEN [op |-> "collapse", path |-> path,
                  popup |-> nodeState[path].showInfo,
                  lostPopup |-> \E d \in DOMAIN nodeState :
                                    IsBelow(d, path) /\ nodeState[d].showInfo,
                  lostCollapsed |-> \E d \in DOMAIN nodeState :
                                    IsBelow(d, path) /\ ~nodeState[d].isExpanded]
            ELSE [op |-> "expand", path |-> path,
                  after |-> IF lastEvent.op = "collapse" /\ lastEvent.path = path
                            THEN <<lastEvent>> ELSE <<>>]

\* nodeRef on the outer element of line 38, which holds the children too
handleClickOutside_RegionWithChildren(owner, target, state) ==
    IF target = <<>> \/ ~(target[1] = owner \/ IsBelow(target[1], owner))
    THEN [state EXCEPT !.showInfo = FALSE]
    ELSE state

\* lines 22-26: the listener of the node at owner, run for a press on target
handleClickOutside(owner, target, state) ==
    IF ~Contains(owner, target) THEN [state EXCEPT !.showInfo = FALSE] ELSE state

\* what lastEvent keeps of a mousedown: the target and whether a popup was
\* open on a node above the target and on the node of the target
PressEvent(target) ==
    [op |-> "mousedown", target |-> target,
     wasOpenAbove |-> \E owner \in listeners :
                        target # <<>> /\ IsBelow(target[1], owner),
     wasOpenAt |-> \E owner \in listeners : target = <<owner>>]

\* a mousedown event reaching document: every registered listener runs; the
\* listener of a node that is gone finds nodeRef.current null
runListeners(target) ==
    /\ NoMicrotaskPending
    /\ target \in {<<>>} \cup { <<path>> : path \in DOMAIN nodeState }
    /\ SetNodeState([path \in DOMAIN nodeState |->
                        IF path \in listeners
                        THEN handleClickOutside(path, target, nodeState[path])
                        ELSE nodeState[path]])

\* a mousedown event, whatever follows it
mouseDown(target) ==
    /\ runListeners(target)
    /\ lastEvent' = IF listeners = {} THEN Other ELSE PressEvent(target)

\* the press of a pointer on target: the mousedown event, with lastEvent
\* keeping the target for the click that follows the press
pointerDown(target) ==
    /\ runListeners(target)
    /\ lastEvent' = PressEvent(target)

\* the handler before this one was the press of the pointer on an element
\* of the node at path
PressedOn(path) == lastEvent.op = "mousedown" /\ lastEvent.target = <<path>>

\* the pointer released on the info button it was pressed on: the click
\* event; lastEvent keeps the press
pointerInfo(path) ==
    /\ PressedOn(path)
    /\ toggleInfoAt(path)
    /\ lastEvent' = [op |-> "info", path |-> path, press |-> lastEvent]

\* the pointer released on the close button of the popup it was pressed on
pointerClose(path) ==
    /\ PressedOn(path)
    /\ clickClose(path)

\* the pointer released on the expand toggle it was pressed on
pointerExpand(path) ==
    /\ PressedOn(path)
    /\ clickExpand(path)

----------------------------------------------------------------------------
(* App.tsx and ChatArea: the chat *)

\* A text of the chat is a sequence of pieces, '' being <<>>; a typed text
\* is a sequence of characters.

\* the buttons of lines 55-63 of ChatArea
Suggestions ==
    { <<"Summarize the key points">>, <<"What are the main arguments?">>,
      <<"List any dates mentions">>, <<"Explain the conclusion">> }

\* what the user types: white space, and a question after a space
Inputs == { <<" ">>, <<" ", "h", "i">> }

\* the text of a chunk of the stream: streamChatResponse hands on only
\* chunks whose text is not empty (lines 176-178 of the service)
Chunks == { <<"a">> }

\* the fixed text of line 86
ChatErrorText ==
    <<"Sorry, I encountered an error while processing your request. Please ensure your API Key is valid and try again.">>

\* lines 32-42 of ChatArea: messages, suggestions and form are rendered
\* only past the early return for an empty source list
ChatRendered == activeView = "chat" /\ Len(sources) > 0

\* App.handleSendMessage up to its await (lines 39-67): the user message and
\* the loading flag, then the placeholder of the answer; the n-th call draws
\* the ids <<n, "user">>, <<n, "model">> and, if it fails, <<n, "error">>
handleSendMessage(text) ==
    /\ sendCount < MaxSends
    /\ LET n == sendCount + 1 IN
        /\ messages' = messages \o
                << [id |-> <<n, "user">>, role |-> "user", text |-> text],
                   [id |-> <<n, "model">>, role |-> "model", text |-> <<>>] >>
        /\ sends' = Append(sends, [n |-> n, botMessageId |-> <<n, "model">>,
                                   fullResponse |-> <<>>])
        /\ sendCount' = n
    /\ isChatLoading' = TRUE
    /\ UNCHANGED <<activeView, sources, nextId, viewState, requests, apiKey,
                   nodeState, listeners>>

\* onChange of the input field (line 118), which is disabled while a send
\* is loading (line 121)
typeInput(text) ==
    /\ NoMicrotaskPending
    /\ ChatRendered
    /\ ~isChatLoading
    /\ input' = text
    /\ lastEvent' = Other
    /\ UNCHANGED <<activeView, sources, nextId, viewState, requests, apiKey,
                   nodeState, listeners, chatState>>

\* ChatArea.handleSubmit (lines 25-30), for a submit event however caused
handleSubmit ==
    /\ NoMicrotaskPending
    /\ ChatRendered
    /\ IF Trim(input) = <<>> \/ isChatLoading
       THEN /\ lastEvent' = [op |-> "submit", sent |-> FALSE,
                             loading |-> isChatLoading]
            /\ UNCHANGED <<activeView, sources, nextId, viewState, requests,
                           apiKey, nodeState, listeners, chatState, input>>
       ELSE /\ handleSendMessage(input)
            /\ input' = <<>>
            /\ lastEvent' = [op |-> "submit", sent |-> TRUE, loading |-> FALSE]

\* the suggestion buttons rendered whatever the message list holds
SuggestionsRendered_Always == ChatRendered

\* line 48 of ChatArea: messages.length === 0
SuggestionsRendered == ChatRendered /\ Len(messages) = 0

\* a suggestion button (lines 56-62): onSendMessage(suggestion)
clickSuggestion(suggestion) ==
    /\ NoMicrotaskPending
    /\ SuggestionsRendered
    /\ handleSendMessage(suggestion)
    /\ lastEvent' = [op |-> "suggestion"]
    /\ UNCHANGED input

\* lines 71-79: the callback of streamChatResponse for a chunk of the stream
\* of the i-th pending call
onChunk(i, chunk) ==
    /\ apiKey
    /\ i \in 1..Len(sends)
    /\ Len(sends[i].fullResponse) < MaxChunks
    /\ LET fullResponse == sends[i].fullResponse \o chunk IN
        /\ sends' = [sends EXCEPT ![i].fullResponse = fullResponse]
        /\ messages' = [k \in 1..Len(messages) |->
                            IF messages[k].id = sends[i].botMessageId
                            THEN [messages[k] EXCEPT !.text = fullResponse]
                            ELSE messages[k]]
    /\ lastEvent' = Other
    /\ UNCHANGED <<activeView, sources, nextId, viewState, requests, apiKey,
                   nodeState, listeners, isChatLoading, sendCount, input>>

\* the stream of the i-th pending call ended: the finally block (line 94)
onStreamEnd(i) ==
    /\ apiKey
    /\ i \in 1..Len(sends)
    /\ sends' = Remove(sends, i)
    /\ isChatLoading' = FALSE
    /\ lastEvent' = [op |-> "chatDone", send |-> sends[i]]
    /\ UNCHANGED <<activeView, sources, nextId, viewState, requests, apiKey,
                   nodeState, listeners, messages, sendCount, input>>

\* the error message appended to all messages, the empty ones too
OnChatError_KeepsEmpty(msgs, errorMessage) == Append(msgs, errorMessage)

\* line 91: [...prev.messages.filter(m => m.text !== ''), errorMessage]
OnChatError(msgs, errorMessage) ==
    Append(SelectSeq(msgs, LAMBDA m : m.text # <<>>), errorMessage)

\* streamChatResponse rejected for the i-th pending call, before or after
\* chunks: the catch block (lines 81-92) and the finally block (line 94)
onStreamError(i) ==
    /\ i \in 1..Len(sends)
    /\ sends' = Remove(sends, i)
    /\ messages' = OnChatError(messages,
                        [id |-> <<sends[i].n, "error">>, role |-> "model",
                         text |-> ChatErrorText, isError |-> TRUE])
    /\ isChatLoading' = FALSE
    /\ lastEvent' = [op |-> "chatFail", send |-> sends[i]]
    /\ UNCHANGED <<activeView, sources, nextId, viewState, requests, apiKey,
                   nodeState, listeners, sendCount, input>>

----------------------------------------------------------------------------
(* Specifications *)

AddSource == \E c \in Contents : handleAddSource(c)
RemoveSource == \E id \in SourceIds(sources) : handleRemoveSource(id)
ViewChange == \E v \in {"chat", "mindmap"} : onViewChange(v)
SelectSource == \E k \in {"all"} \cup SourceIds(sources) : selectSource(k)
Resolve ==
    \E i \in 1..Len(requests) : \E resp \in Responses :
        generateMindMap(apiKey, resp).ok /\ settleGenerate(i, resp)
Reject ==
    \E i \in 1..Len(requests) : \E resp \in Responses :
        ~generateMindMap(apiKey, resp).ok /\ settleGenerate(i, resp)

\* every path of a node of the trees of the model
Paths == UNION { RenderedPaths(t, NoNodes, <<>>) : t \in Trees \cup Shapes }

\* the application as its user drives it through the side bar and the
\* controls of the view; presses and clicks on the nodes of the canvas are
\* in NextNodes
Next ==
    \/ AddSource
    \/ RemoveSource
    \/ ViewChange
    \/ SelectSource
    \/ clickGenerate
    \/ Resolve
    \/ Reject
    \/ zoomIn
    \/ zoomOut
    \/ resetZoom

Spec == Init /\ [][Next]_vars

\* a source with a content that is not blank, where a property does not
\* depend on what the sources hold
AddPlainSource == handleAddSource(<<"X">>)

\* the controller on its own: handleGenerate may run in any state of the
\* view, also one in which the button is disabled
NextCtl ==
    \/ AddPlainSource
    \/ RemoveSource
    \/ ViewChange
    \/ SelectSource
    \/ clickGenerate
    \/ callGenerate
    \/ Resolve
    \/ Reject
    \/ zoomIn
    \/ zoomOut
    \/ resetZoom

SpecCtl == Init /\ [][NextCtl]_vars

ClickInfo == \E path \in DOMAIN nodeState : clickInfo(path)
ClickClose == \E path \in DOMAIN nodeState : clickClose(path)
ClickExpand == \E path \in DOMAIN nodeState : clickExpand(path)
MouseDown ==
    \E target \in {<<>>} \cup { <<path>> : path \in DOMAIN nodeState } :
        mouseDown(target)

\* the view with the nodes of its canvas: the user also presses and clicks
\* on the nodes.  The zoom buttons are left to Spec: zoom is a CSS transform
\* of the canvas (line 313) that no MindMapNode reads.
NextNodes ==
    \/ AddPlainSource
    \/ RemoveSource
    \/ ViewChange
    \/ SelectSource
    \/ clickGenerate
    \/ Resolve
    \/ Reject
    \/ ClickInfo
    \/ ClickClose
    \/ ClickExpand
    \/ MouseDown

SpecNodes == Init /\ [][NextNodes]_vars

\* the model answering with the JSON of a tree of Shapes
ResolveShape ==
    \E i \in 1..Len(requests) : \E t \in Shapes :
        settleGenerate(i, [kind |-> "json", tree |-> t])

\* the view showing trees of every number of children: the user adds a
\* source, generates, and collapses and expands the nodes
NextShapes ==
    \/ AddPlainSource
    \/ ViewChange
    \/ SelectSource
    \/ clickGenerate
    \/ ResolveShape
    \/ ClickExpand

SpecShapes == Init /\ [][NextShapes]_vars

\* the view of a user who zooms in and opens popups, and changes the
\* selection in between
NextSelect ==
    \/ AddPlainSource
    \/ ViewChange
    \/ SelectSource
    \/ clickGenerate
    \/ Resolve
    \/ Reject
    \/ zoomIn
    \/ ClickInfo

SpecSelect == Init /\ [][NextSelect]_vars

\* the promise awaited by the mounted instance settles
SettleLive ==
    \E i \in 1..Len(requests) : \E resp \in Responses :
        requests[i].live /\ settleGenerate(i, resp)

\* the view and its generator calls, without zoom and canvas events
NextLive ==
    \/ AddPlainSource
    \/ RemoveSource
    \/ ViewChange
    \/ SelectSource
    \/ clickGenerate
    \/ Resolve
    \/ Reject

\* every call awaited by the mounted instance settles in the end: the
\* promise of generateMindMap is resolved or rejected, and the continuation
\* of handleGenerate is a microtask the event loop runs
SpecLive == Init /\ [][NextLive]_vars /\ WF_vars(SettleLive)

PointerDown ==
    \E target \in {<<>>} \cup { <<path>> : path \in DOMAIN nodeState } :
        pointerDown(target)
PointerInfo == \E path \in DOMAIN nodeState : pointerInfo(path)
PointerClose == \E path \in DOMAIN nodeState : pointerClose(path)
PointerExpand == \E path \in DOMAIN nodeState : pointerExpand(path)

\* the canvas under a pointer: every click on a control of a node is the
\* release of a press on the same node
NextPointer ==
    \/ AddPlainSource
    \/ ViewChange
    \/ SelectSource
    \/ clickGenerate
    \/ Resolve
    \/ Reject
    \/ PointerDown
    \/ PointerInfo
    \/ PointerClose
    \/ PointerExpand

SpecPointer == Init /\ [][NextPointer]_vars

TypeInput == \E text \in Inputs : typeInput(text)
ClickSuggestion == \E suggestion \in Suggestions : clickSuggestion(suggestion)
Chunk == \E i \in 1..Len(sends) : \E chunk \in Chunks : onChunk(i, chunk)
StreamEnd == \E i \in 1..Len(sends) : onStreamEnd(i)
StreamError == \E i \in 1..Len(sends) : onStreamError(i)

\* the application as the user of the chat drives it
NextChat ==
    \/ AddPlainSource
    \/ RemoveSource
    \/ ViewChange
    \/ TypeInput
    \/ handleSubmit
    \/ ClickSuggestion
    \/ Chunk
    \/ StreamEnd
    \/ StreamError

SpecChat == Init /\ [][NextChat]_vars

TypeOK ==
    /\ activeView \in {"chat", "mindmap"}
    /\ nextId \in 0..MaxAdds
    /\ selectedSourceId \in {"", "all"} \cup { IdNames[i] : i \in 1..MaxAdds }
    /\ isLoading \in BOOLEAN
    /\ mindMapData \in {<<>>} \cup { <<t>> : t \in Trees \cup Shapes }
    /\ error \in {<<>>, <<ErrorMessage>>}
    /\ zoom \in 5..20
    /\ Len(requests) <= MaxPending
    /\ \A i \in 1..Len(requests) :
            requests[i] \in [live : BOOLEAN, afterFailure : BOOLEAN]
    /\ apiKey \in BOOLEAN
    /\ DOMAIN nodeState \subseteq Paths
    /\ \A path \in DOMAIN nodeState :
            nodeState[path] \in [isExpanded : BOOLEAN, showInfo : BOOLEAN]
    /\ listeners \subseteq Paths
    /\ isChatLoading \in BOOLEAN
    /\ sendCount \in 0..MaxSends
    /\ input \in {<<>>} \cup Inputs
    /\ Len(sends) <= MaxSends
    /\ \A k \in 1..Len(messages) :
            /\ messages[k].role \in {"user", "model"}
            /\ messages[k].id[1] \in 1..sendCount
            /\ Len(messages[k].text) <= MaxChunks + 3

----------------------------------------------------------------------------
(* Properties of the viewport controller *)

\* the text generate() resolves for a key, stated from the sources alone:
\* every content in list order with one blank line between neighbours for
\* "all", the content of the source carrying the key otherwise, nothing
\* when no source carries it
RECURSIVE JoinedInOrder(_)
JoinedInOrder(srcs) ==
    IF Len(srcs) = 0 THEN <<>>
    ELSE IF Len(srcs) = 1 THEN srcs[1].content
    ELSE JoinedInOrder(SubSeq(srcs, 1, Len(srcs) - 1))
            \o <<"\n", "\n">> \o srcs[Len(srcs)].content

Resolved(srcs, key) ==
    IF key = "all" THEN JoinedInOrder(srcs)
    ELSE IF \E i \in 1..Len(srcs) : srcs[i].id = key
         THEN srcs[CHOOSE i \in 1..Len(srcs) : srcs[i].id = key].content
         ELSE <<>>

AllWhitespace(text) == \A i \in 1..Len(text) : text[i] \in {" ", "\n", "\t"}

\* the step is a run of handleGenerate
GenerateStep == lastEvent'.op = "handleGenerate"

\* the step is the settling of a pending call
SettleStep == Len(requests') < Len(requests)

\* the last handler settled a call whose instance is the mounted one
SettledOnMountedView ==
    /\ lastEvent.op \in {"resolve", "reject"}
    /\ activeView = "mindmap"
    /\ lastEvent.call.live

\* C1: generate() invoked while the view is Loading is a no-op: no second
\* generator call is issued and status, tree, error and zoom stay as they are
C1_SingleFlight ==
    [][ (GenerateStep /\ isLoading) => UNCHANGED <<viewState, requests>> ]_vars

\* C2: a response is applied only if it answers the latest issued call; the
\* response of a call after which another call was issued leaves the
\* viewport state as it is
C2_SupersededGuard ==
    [][ (SettleStep /\ lastEvent'.superseded) => UNCHANGED viewState ]_vars

\* C3: the response of a call whose view has been torn down since changes
\* neither that view nor the view mounted later
C3_TornDownDiscarded ==
    [][ (SettleStep /\ ~lastEvent'.call.live) => UNCHANGED viewState ]_vars

C3_Witness ==
    /\ lastEvent.op = "resolve"
    /\ ~lastEvent.call.live
    /\ activeView = "mindmap"
    /\ isLoading
    /\ mindMapData = <<>>

\* C4: generate() with no source selected is a no-op: no generator call,
\* status, tree, error and zoom unchanged
C4_NoKeyNoOp ==
    [][ (GenerateStep /\ selectedSourceId = "")
            => UNCHANGED <<viewState, requests>> ]_vars

C4_Witness ==
    /\ lastEvent = [op |-> "handleGenerate", started |-> FALSE]
    /\ selectedSourceId = ""
    /\ Len(sources) > 0

\* C5: generate() whose resolved content is empty or whitespace-only is a
\* silent no-op from any status: no generator call, no error, no change of
\* status, tree, error message or zoom
C5_BlankNoOp ==
    [][ (GenerateStep /\ AllWhitespace(Resolved(sources, selectedSourceId)))
            => UNCHANGED <<viewState, requests>> ]_vars

C5_Witness ==
    /\ lastEvent = [op |-> "handleGenerate", started |-> FALSE]
    /\ selectedSourceId \notin {"", "all"}
    /\ selectedSourceId \notin SourceIds(sources)
    /\ mindMapData # <<>>
    /\ error = <<>>

\* C6: the text handed to the generator is every content joined by one blank
\* line in list order for "all", and the content of the one matching source
\* for any other key
C6_ContentResolution ==
    [][ (Len(requests') > Len(requests))
            => lastEvent'.content = Resolved(sources, selectedSourceId) ]_vars

C6_Witness ==
    /\ lastEvent.op = "handleGenerate"
    /\ lastEvent.started
    /\ selectedSourceId = "all"
    /\ MapContent(sources) = << <<"X">>, <<"Y", "\n">> >>
    /\ lastEvent.content = <<"X", "\n", "\n", "Y", "\n">>

\* C7: an accepted generate() leaves the view Loading with zoom 1.0, no tree
\* and no error, and has invoked the generator exactly once with the
\* resolved content
C7_AcceptedGenerate ==
    [][ (/\ GenerateStep
         /\ selectedSourceId # ""
         /\ ~isLoading
         /\ ~AllWhitespace(Resolved(sources, selectedSourceId)))
            => (/\ isLoading'
                /\ zoom' = 10
                /\ mindMapData' = <<>>
                /\ error' = <<>>
                /\ selectedSourceId' = selectedSourceId
                /\ Len(requests') = Len(requests) + 1
                /\ SubSeq(requests', 1, Len(requests)) = requests
                /\ lastEvent'.started
                /\ lastEvent'.content = Resolved(sources, selectedSourceId)) ]_vars

C7_Witness ==
    /\ lastEvent.op = "handleGenerate"
    /\ lastEvent.started
    /\ lastEvent.from = "Ready"
    /\ isLoading
    /\ zoom = 10
    /\ mindMapData = <<>>
    /\ requests # <<>>

\* C8: a call that resolves with tree T leaves the view Ready(T); a call
\* that rejects leaves it Failed with no tree; a call issued from Failed
\* that resolves leaves it Ready with the failure cleared
C8_Outcome ==
    /\ (SettledOnMountedView /\ lastEvent.op = "resolve")
            => (~isLoading /\ mindMapData = <<lastEvent.data>> /\ error = <<>>)
    /\ (SettledOnMountedView /\ lastEvent.op = "reject")
            => (~isLoading /\ mindMapData = <<>> /\ error # <<>>)

C8_Witness ==
    /\ SettledOnMountedView
    /\ lastEvent.op = "resolve"
    /\ lastEvent.call.afterFailure
    /\ mindMapData = <<TreeGeography>>
    /\ error = <<>>
    /\ ~isLoading

\* C9: the generator is invoked once per accepted generate() and by nothing
\* else; a rejection invokes nothing, and a Failed view leaves Failed only
\* by a fresh generate(), which clears tree and zoom
C9_NoRetry ==
    [][ /\ (GenerateStep /\ lastEvent'.started)
                => Len(requests') = Len(requests) + 1
        /\ ~(GenerateStep /\ lastEvent'.started)
                => Len(requests') <= Len(requests)
        /\ lastEvent'.op = "reject" => Len(requests') = Len(requests) - 1
        /\ (/\ error # <<>>
            /\ ~isLoading
            /\ activeView' = activeView
            /\ (error' = <<>> \/ isLoading'))
                => (/\ GenerateStep
                    /\ lastEvent'.started
                    /\ mindMapData' = <<>>
                    /\ zoom' = 10) ]_vars

C9_Witness ==
    /\ SettledOnMountedView
    /\ lastEvent.op = "reject"
    /\ error # <<>>
    /\ ~isLoading
    /\ requests = <<>>

\* C10: whatever the cause of a rejection, the view shows the one fixed
\* message and never the cause
C10_OpaqueFailure ==
    /\ \A c \in Causes : error # <<c>>
    /\ (SettledOnMountedView /\ lastEvent.op = "reject")
            => error = <<ErrorMessage>>

C10_Witness ==
    /\ SettledOnMountedView
    /\ lastEvent.op = "reject"
    /\ lastEvent.cause = "Failed to generate a valid mind map structure."
    /\ error = <<ErrorMessage>>

----------------------------------------------------------------------------
(* Properties of the zoom controls *)

\* C11: in every reachable state zoom lies in [0.5, 2.0]; zoom-in adds 0.1
\* capped at 2.0 and zoom-out subtracts 0.1 floored at 0.5
C11_ZoomBounds ==
    /\ [](5 <= zoom /\ zoom <= 20)
    /\ [][ /\ zoomIn => zoom' = (IF zoom + 1 > 20 THEN 20 ELSE zoom + 1)
           /\ zoomOut => zoom' = (IF zoom - 1 < 5 THEN 5 ELSE zoom - 1) ]_vars

\* ten zoom-in steps from 1.0 have reached the cap
C11_Witness ==
    /\ zoom = 20
    /\ lastEvent = Other
    /\ mindMapData # <<>>

\* C12: resetZoom() yields zoom exactly 1.0 from any zoom, changes nothing
\* but zoom, and leaves a state on which a second resetZoom() changes nothing
C12_ResetZoom ==
    [][ resetZoom =>
            /\ zoom' = 10
            /\ UNCHANGED <<activeView, sources, nextId, selectedSourceId,
                           isLoading, mindMapData, error, requests, apiKey>>
            /\ ZoomRendered'
            /\ (zoom = 10 /\ lastEvent.op = "resetZoom") => zoom' = zoom ]_vars

C12_Witness ==
    /\ lastEvent = [op |-> "resetZoom", changed |-> TRUE]
    /\ zoom = 10
    /\ mindMapData # <<>>

----------------------------------------------------------------------------
(* Properties of the node views *)

\* C13: the global pointer listener of a node is registered if and only if
\* the node is mounted and its popup is open; none remains after the popup
\* closed or after the node was unmounted with its popup open
C13_ListenerLifecycle ==
    \A path \in Paths :
        path \in listeners
            <=> (path \in DOMAIN nodeState /\ nodeState[path].showInfo)

\* a node was collapsed while a popup was open below it and no listener is left
C13_Witness ==
    /\ lastEvent.op = "collapse"
    /\ lastEvent.lostPopup
    /\ ~lastEvent.popup
    /\ listeners = {}

\* C14: while the popup of a node is open, a pointer press on a target
\* outside the region of that node (its card, popup and expand toggle; the
\* region of any other node, its own children included, is outside) closes
\* the popup, and a press inside that region leaves it open
C14_OutsidePress ==
    [][ lastEvent'.op = "mousedown" =>
            \A path \in DOMAIN nodeState :
                nodeState[path].showInfo =>
                    /\ path \in DOMAIN nodeState'
                    /\ nodeState'[path].showInfo
                            = (lastEvent'.target = <<path>>) ]_vars

\* a press on the first child of the root, whose own popup was open, closed
\* the popup of the root and left the popup of the child open
C14_Witness ==
    /\ lastEvent.op = "mousedown"
    /\ lastEvent.target = << <<0>> >>
    /\ lastEvent.wasOpenAbove
    /\ lastEvent.wasOpenAt
    /\ ~nodeState[<<>>].showInfo
    /\ nodeState[<<0>>].showInfo

\* C15: if a node whose popup is open is collapsed and then re-expanded, its
\* popup is closed afterwards
C15_PopupClosedAfterReexpand ==
    [][ (/\ lastEvent'.op = "expand"
         /\ lastEvent'.after # <<>>
         /\ lastEvent'.after[1].popup)
            => ~nodeState'[lastEvent'.path].showInfo ]_vars

\* C15 as amended: a node whose popup is open and that is unmounted by the
\* collapse of a node above it has its popup closed once that node is
\* re-expanded; the popup of the node that was itself collapsed and
\* re-expanded is as it was before the collapse
C15_PopupAcrossCollapse ==
    [][ (lastEvent'.op = "expand" /\ lastEvent'.after # <<>>) =>
            /\ \A d \in DOMAIN nodeState' :
                    IsBelow(d, lastEvent'.path) => ~nodeState'[d].showInfo
            /\ nodeState'[lastEvent'.path].showInfo
                    = lastEvent'.after[1].popup ]_vars

\* the root was collapsed with its own popup and a popup below it open, and
\* re-expanded: its popup is open, the one below is closed
C15_Witness ==
    /\ lastEvent.op = "expand"
    /\ lastEvent.path = <<>>
    /\ lastEvent.after # <<>>
    /\ lastEvent.after[1].popup
    /\ lastEvent.after[1].lostPopup
    /\ nodeState[<<>>].showInfo
    /\ \A d \in DOMAIN nodeState : d # <<>> => ~nodeState[d].showInfo
    /\ <<0>> \in DOMAIN nodeState

\* C16: collapsing a node unmounts every node below it, and re-expanding it
\* mounts its children with every node that becomes mounted below it in the
\* default state (expanded, popup closed), whatever state the nodes below it
\* had before the collapse
C16_SubtreeReset ==
    [][ /\ lastEvent'.op = "collapse" =>
                \A d \in DOMAIN nodeState' : ~IsBelow(d, lastEvent'.path)
        /\ lastEvent'.op = "expand" =>
                /\ \E d \in DOMAIN nodeState' : IsBelow(d, lastEvent'.path)
                /\ \A d \in DOMAIN nodeState' :
                        IsBelow(d, lastEvent'.path) =>
                            (nodeState'[d].isExpanded /\ ~nodeState'[d].showInfo) ]_vars

\* the root was collapsed while a node below it was collapsed and one had
\* its popup open, and re-expanded: the grandchild is mounted again
C16_Witness ==
    /\ lastEvent.op = "expand"
    /\ lastEvent.path = <<>>
    /\ lastEvent.after # <<>>
    /\ lastEvent.after[1].lostCollapsed
    /\ lastEvent.after[1].lostPopup
    /\ <<0, 0>> \in DOMAIN nodeState
    /\ nodeState[<<0>>].isExpanded

\* the paths of all nodes of a tree, from the tree alone
RECURSIVE SubtreePaths(_)
SubtreePaths(data) ==
    {<<>>} \cup
        IF "children" \in DOMAIN data
        THEN UNION { { <<i - 1>> \o q : q \in SubtreePaths(data.children[i]) } :
                        i \in 1..Len(data.children) }
        ELSE {}

\* the number of nodes of a tree
RECURSIVE SumOfCounts(_)
SumOfCounts(counts) ==
    IF counts = <<>> THEN 0 ELSE Head(counts) + SumOfCounts(Tail(counts))

RECURSIVE NodeCount(_)
NodeCount(data) ==
    1 + IF "children" \in DOMAIN data
        THEN SumOfCounts([i \in 1..Len(data.children) |-> NodeCount(data.children[i])])
        ELSE 0

\* the nodes of the tree all of whose proper ancestors are mounted and expanded
ExpectedMounted(tree) ==
    { path \in SubtreePaths(tree) :
        \A k \in 0..(Len(path) - 1) :
            /\ SubSeq(path, 1, k) \in DOMAIN nodeState
            /\ nodeState[SubSeq(path, 1, k)].isExpanded }

\* with tree T shown: the mounted views are the nodes of T whose proper
\* ancestors are all expanded; N views when every node is expanded, one when
\* the root is collapsed
StructurallyComplete(tree) ==
    /\ DOMAIN nodeState = ExpectedMounted(tree)
    /\ (\A path \in DOMAIN nodeState : nodeState[path].isExpanded)
            => Cardinality(DOMAIN nodeState) = NodeCount(tree)
    /\ ~nodeState[<<>>].isExpanded => Cardinality(DOMAIN nodeState) = 1

\* C17: in every reachable Ready state the set of mounted node views is
\* exactly the set of tree nodes all of whose proper ancestors are expanded
C17_StructuralCompleteness ==
    StatusAtCall = "Ready" => StructurallyComplete(mindMapData[1])

\* C17 as amended: the same in every reachable Ready state in which the
\* source list is not empty
C17_StructuralCompletenessWithSources ==
    (StatusAtCall = "Ready" /\ Len(sources) > 0)
        => StructurallyComplete(mindMapData[1])

\* the first child of the root of the five-node tree was collapsed: four
\* views are mounted
C17_Witness ==
    /\ StatusAtCall = "Ready"
    /\ mindMapData = <<TreeScience>>
    /\ lastEvent.op = "collapse"
    /\ lastEvent.path = <<0>>
    /\ DOMAIN nodeState = { <<>>, <<0>>, <<1>>, <<2>> }

\* the number of children of a node, absent children counting as none
ChildCount(data) ==
    IF "children" \in DOMAIN data THEN Len(data.children) ELSE 0

\* C18: the expand/collapse toggle is available on a node if and only if the
\* node has at least one child, and a node without children is expanded in
\* every reachable state
C18_ToggleOnlyWithChildren ==
    \A path \in DOMAIN nodeState :
        /\ ToggleRendered(NodeAt(mindMapData[1], path))
                <=> ChildCount(NodeAt(mindMapData[1], path)) >= 1
        /\ ChildCount(NodeAt(mindMapData[1], path)) = 0
                => nodeState[path].isExpanded

\* a toggle was used next to a leaf with an empty children list and a leaf
\* with none
C18_Witness ==
    /\ mindMapData = <<TreeScience>>
    /\ lastEvent.op = "collapse"
    /\ lastEvent.path = <<0>>
    /\ <<1>> \in DOMAIN nodeState
    /\ <<2>> \in DOMAIN nodeState
    /\ nodeState[<<1>>].isExpanded
    /\ nodeState[<<2>>].isExpanded

\* C19: every node view is in state (expanded, popup closed) each time it is
\* mounted; the toggle controls take a node with children to each of the
\* four combinations of the two flags
C19_MountedInDefaultState ==
    [][ \A path \in (DOMAIN nodeState') \ (DOMAIN nodeState) :
            nodeState'[path] = [isExpanded |-> TRUE, showInfo |-> FALSE] ]_vars

\* of the two nodes with children one is (expanded, popup open), the other
\* (collapsed, popup open), and the leaves mounted beside it are as mounted
C19_Witness ==
    /\ mindMapData = <<TreeScience>>
    /\ { <<>>, <<0>>, <<1>> } \subseteq DOMAIN nodeState
    /\ nodeState[<<>>] = [isExpanded |-> TRUE, showInfo |-> TRUE]
    /\ nodeState[<<0>>] = [isExpanded |-> FALSE, showInfo |-> TRUE]
    /\ nodeState[<<1>>] = [isExpanded |-> TRUE, showInfo |-> FALSE]

\* the two combinations of a node with children that C19_Witness does not show
C19_CollapsedClosed ==
    /\ nodeState # NoNodes
    /\ nodeState[<<>>] = [isExpanded |-> FALSE, showInfo |-> FALSE]

C19_CollapsedOpen ==
    /\ nodeState # NoNodes
    /\ nodeState[<<>>] = [isExpanded |-> FALSE, showInfo |-> TRUE]

\* the step opens or closes the popup of a node
PopupStep ==
    \E path \in (DOMAIN nodeState) \cap (DOMAIN nodeState') :
        nodeState'[path].showInfo # nodeState[path].showInfo

\* C20: toggling the expanded flag of a node leaves the popup of that node as
\* it is, and opening or closing a popup (info button, close control or
\* outside press) leaves every expanded flag and the set of mounted nodes as
\* they are
C20_FlagsIndependent ==
    [][ /\ lastEvent'.op \in {"collapse", "expand"} =>
                nodeState'[lastEvent'.path].showInfo
                    = nodeState[lastEvent'.path].showInfo
        /\ PopupStep =>
                /\ DOMAIN nodeState' = DOMAIN nodeState
                /\ \A path \in DOMAIN nodeState :
                        nodeState'[path].isExpanded = nodeState[path].isExpanded ]_vars

\* a node was collapsed with its popup open and the popup is still open
C20_Witness ==
    /\ lastEvent.op = "collapse"
    /\ lastEvent.popup
    /\ lastEvent.path \in DOMAIN nodeState
    /\ nodeState[lastEvent.path].showInfo
    /\ ~nodeState[lastEvent.path].isExpanded

----------------------------------------------------------------------------
(* Properties of regeneration, connectors and popup text *)

\* C21: regenerating the tree discards all node render state: an accepted
\* generate() unmounts every node and removes every listener, and when its
\* call resolves every mounted node is in the default state (expanded, popup
\* closed) and no listener is registered
C21_RegenerationResets ==
    [][ /\ (lastEvent'.op = "handleGenerate" /\ lastEvent'.started) =>
                (DOMAIN nodeState' = {} /\ listeners' = {})
        /\ (lastEvent'.op = "resolve" /\ lastEvent'.call.live
                /\ activeView = "mindmap") =>
                /\ listeners' = {}
                /\ \A path \in DOMAIN nodeState' :
                        nodeState'[path].isExpanded /\ ~nodeState'[path].showInfo ]_vars

\* a tree was shown with a node off its default state, generate() was
\* accepted and its call resolved: the nodes of the new tree are mounted
C21_Witness ==
    /\ lastEvent.op = "resolve"
    /\ lastEvent.after # <<>>
    /\ lastEvent.after[1].from = "Ready"
    /\ lastEvent.after[1].nodesChanged
    /\ <<0>> \in DOMAIN nodeState
    /\ listeners = {}

\* the role the code's branches give the child with key idx: the branches
\* for first, last and middle are inside the one for !isOnly (line 131)
RolesOf(idx, children) ==
    (IF isOnly(children) THEN {"only"} ELSE {})
    \cup (IF ~isOnly(children) /\ isFirst(idx) THEN {"first"} ELSE {})
    \cup (IF ~isOnly(children) /\ isLast(idx, children) THEN {"last"} ELSE {})
    \cup (IF ~isOnly(children) /\ ~isFirst(idx) /\ ~isLast(idx, children)
          THEN {"middle"} ELSE {})

\* the role of the child at index idx of K children, from idx and K alone
RoleFor(idx, K) ==
    IF K = 1 THEN "only"
    ELSE IF idx = 0 THEN "first"
    ELSE IF idx = K - 1 THEN "last"
    ELSE "middle"

\* the children array of the parent of the mounted node at path
Siblings(path) ==
    NodeAt(CanvasTree(activeView, sources, mindMapData)[1],
           SubSeq(path, 1, Len(path) - 1)).children

\* C22: every rendered child of a parent with K children has exactly one of
\* the roles only, first, middle, last: only iff K = 1, otherwise first at
\* index 0, last at index K-1 and middle in between; two rendered children
\* with the same index and the same K have the same connector block
\* whatever their label, description and subtree
C22_ConnectorRoles ==
    \A path \in DOMAIN nodeState \ {<<>>} :
        /\ RolesOf(path[Len(path)], Siblings(path)) =
                { RoleFor(path[Len(path)], Len(Siblings(path))) }
        /\ \A t \in Shapes : \A idx \in 0..(Len(t.children) - 1) :
                (idx = path[Len(path)] /\ Len(t.children) = Len(Siblings(path)))
                    => Connectors[path] = ConnectorBlock(idx, t.children)

\* a parent with four differing children is shown: a first, two middle and
\* a last child are rendered
C22_Witness ==
    /\ mindMapData = <<MixedStar(4)>>
    /\ {<<0>>, <<1>>, <<2>>, <<3>>} \subseteq DOMAIN nodeState

\* an element draws a vertical line if it is a filled box one pixel wide or
\* has a left border; the line lies above the middle of the row if the box
\* hangs from the top of the row or stands on the middle (bottom-1/2), and
\* below it if the box hangs from the middle (top-1/2)
DrawsVertical(el) == el.width = "w-px" \/ "border-l" \in el.borders
SpineUp(block) ==
    \E el \in block : DrawsVertical(el) /\ el.edge \in {"top-0", "bottom-1/2"}
SpineDown(block) ==
    \E el \in block : DrawsVertical(el) /\ el.edge = "top-1/2"

\* the horizontal line in the middle of the row, in the half of the block
\* next to the child
HasBranch(block) ==
    \E el \in block :
        /\ el.edge = "top-1/2" /\ el.side = "right-0"
        /\ el.height = "h-px" /\ el.width = "w-3"

\* the vertical lines over a whole half of the row, at the left edge
UpperHalf == Element("top-0", "left-0", "w-px", "h-1/2", {})
LowerHalf == Element("top-1/2", "left-0", "w-px", "h-1/2", {})

\* C23: every rendered child has a horizontal branch; an only child has no
\* vertical spine, a first child has the downward half and no upward one, a
\* last child the upward half and no downward one, a middle child both; the
\* lower half of every child but the last meets the upper half of the next
\* child, so the spine runs from the first child to the last
C23_ConnectorSegments ==
    \A path \in DOMAIN nodeState \ {<<>>} :
        LET idx == path[Len(path)]
            K == Len(Siblings(path))
            role == RoleFor(idx, K)
            block == Connectors[path]
            next == Append(SubSeq(path, 1, Len(path) - 1), idx + 1)
        IN  /\ HasBranch(block)
            /\ role = "only" => (~SpineUp(block) /\ ~SpineDown(block))
            /\ role = "first" => (SpineDown(block) /\ ~SpineUp(block))
            /\ role = "last" => (SpineUp(block) /\ ~SpineDown(block))
            /\ role = "middle" => (SpineUp(block) /\ SpineDown(block))
            /\ idx < K - 1 =>
                    /\ next \in DOMAIN nodeState
                    /\ LowerHalf \in block
                    /\ UpperHalf \in Connectors[next]

\* a tree with an only child, a first, a middle and a last child is shown
C23_Witness ==
    /\ mindMapData = <<MixedStar(3)>>
    /\ {<<0, 0>>, <<0>>, <<1>>, <<2>>} \subseteq DOMAIN nodeState

----------------------------------------------------------------------------
(* Properties of the selection and of the status of the view *)

\* C24: selectSource changes only selectedSourceId: in a step that gives
\* the selection a new key, loading flag, tree, error, zoom level and the
\* render state of every node are as before and no generator call is issued
\* or settled, in every status of the view
C24_SelectSourceOnly ==
    [][ (selectedSourceId' # selectedSourceId /\ selectedSourceId' # "") =>
            UNCHANGED <<isLoading, mindMapData, error, zoom, nodeState,
                        listeners, requests>> ]_vars

\* the selection was changed while a zoomed tree with an open popup was
\* shown
C24_Witness ==
    /\ lastEvent.op = "selectSource"
    /\ mindMapData # <<>>
    /\ zoom # 10
    /\ \E path \in DOMAIN nodeState : nodeState[path].showInfo
    /\ listeners # {}

\* C25 as stated: whenever status is Ready, selectedSourceId identifies the
\* content the displayed tree was built from.  Taken one step after the
\* tree was set: if the same tree is still shown in status Ready, the
\* selected key still resolves to the content its generation was given.
C25_SelectedKeyIdentifiesTree ==
    [][ ( /\ lastEvent.op = "resolve"
          /\ lastEvent.after # <<>>
          /\ mindMapData = <<lastEvent.data>>
          /\ mindMapData' = mindMapData
          /\ StatusAtCall' = "Ready"
          /\ CanvasTree(activeView', sources', mindMapData') = mindMapData ) =>
            Resolved(sources', selectedSourceId') = lastEvent.after[1].content ]_vars

\* C25: when the call of a generate() resolves with nothing done in between,
\* the view is Ready, shows the tree of that call, and selectedSourceId
\* resolves to the content the tree was built from
C25_SelectedKeyAtResolve ==
    [][ (lastEvent'.op = "resolve" /\ lastEvent'.after # <<>>) =>
            /\ StatusAtCall' = "Ready"
            /\ mindMapData' = <<lastEvent'.data>>
            /\ Resolved(sources', selectedSourceId') =
                    lastEvent'.after[1].content ]_vars

\* a tree built from the contents of two sources has just been set
C25_Witness ==
    /\ lastEvent.op = "resolve"
    /\ lastEvent.after # <<>>
    /\ selectedSourceId = "all"
    /\ Len(sources) = 2
    /\ mindMapData = <<lastEvent.data>>

\* the description of the mounted node at path: <<>> if it has none
DescriptionAt(path) ==
    NodeAt(CanvasTree(activeView, sources, mindMapData)[1], path).description

\* texts that show nothing: the empty string and white space
BlankTexts == {"", " "}

\* C26 as stated: an open popup shows the description if one is present, the
\* placeholder if the description is absent or empty, and its text is never
\* blank
C26_PopupNeverBlank ==
    \A path \in DOMAIN Popups :
        /\ DescriptionAt(path) \in {<<>>, <<"">>} =>
                Popups[path] = "No specific details available."
        /\ DescriptionAt(path) \notin {<<>>, <<"">>} =>
                Popups[path] = DescriptionAt(path)[1]
        /\ Popups[path] \notin BlankTexts

\* C26: an open popup shows the description if one is present, the
\* placeholder if the description is absent or empty, and its text is never
\* empty; a description of white space is shown as it is
C26_PopupText ==
    \A path \in DOMAIN Popups :
        /\ DescriptionAt(path) \in {<<>>, <<"">>} =>
                Popups[path] = "No specific details available."
        /\ DescriptionAt(path) \notin {<<>>, <<"">>} =>
                Popups[path] = DescriptionAt(path)[1]
        /\ Popups[path] # ""

\* the popups of a node without description, of one with an empty
\* description and of one with a description of white space are open
C26_Witness ==
    /\ mindMapData = <<TreeScience>>
    /\ {<<0>>, <<1>>, <<2>>} \subseteq DOMAIN Popups
    /\ DescriptionAt(<<0>>) = <<>>
    /\ DescriptionAt(<<1>>) = <<" ">>
    /\ DescriptionAt(<<2>>) = <<"">>

\* C27: given that every generator call settles, every Loading state of a
\* view is followed by Ready or Failed for as long as the view is mounted;
\* the loading flag is set only while a call of the mounted view is
\* pending, and it is cleared only by the settling of that call, which
\* leaves the view Ready or Failed, or by the teardown of the view
C27_LoadingEnds ==
    /\ isLoading ~> (~Mounted \/ StatusAtCall \in {"Ready", "Failed"})
    /\ [](isLoading => \E i \in 1..Len(requests) : requests[i].live)
    /\ [][ (isLoading /\ ~isLoading') =>
                \/ activeView' # activeView
                \/ /\ Len(requests') < Len(requests)
                   /\ lastEvent'.call.live
                   /\ StatusAtCall' \in {"Ready", "Failed"} ]_vars

\* the call of a Loading view was rejected: the view is Failed, nothing is
\* pending and the loading flag is cleared
C27_Witness ==
    /\ lastEvent.op = "reject"
    /\ lastEvent.call.live
    /\ lastEvent.after # <<>>
    /\ StatusAtCall = "Failed"
    /\ requests = <<>>

\* C28: with generate() triggered through the Generate button only, at most
\* one of loading flag, tree and error message is present in every
\* reachable state: while Loading there is neither tree nor error, and tree
\* and error are never present together
C28_FlagsExclusive ==
    /\ isLoading => (mindMapData = <<>> /\ error = <<>>)
    /\ ~(mindMapData # <<>> /\ error # <<>>)

\* a Failed view was sent into Loading again: the error is gone
C28_Witness ==
    /\ lastEvent.op = "handleGenerate"
    /\ lastEvent.started
    /\ lastEvent.from = "Failed"
    /\ isLoading
    /\ error = <<>>
    /\ mindMapData = <<>>

C30_ZoomOnlyWithTree ==
    mindMapData = <<>> => zoom = 10

\* a zoomed tree was dropped by an accepted generate(): the view is Loading
\* and zoom is back at 1.0
C30_Witness ==
    /\ lastEvent.op = "handleGenerate"
    /\ lastEvent.started
    /\ lastEvent.zoomed
    /\ mindMapData = <<>>
    /\ zoom = 10

----------------------------------------------------------------------------
(* Properties of pointer interaction, remount and source removal *)

\* the nodes whose popup is open
OpenPopups == { path \in DOMAIN nodeState : nodeState[path].showInfo }

\* C31: under pointer interaction at most one popup is open and at most one
\* listener is registered in every reachable state, and a press on a node
\* closes the popup of every other node
C31_OnePopup ==
    /\ [](\A a, b \in OpenPopups : a = b)
    /\ [](\A a, b \in listeners : a = b)
    /\ [][ lastEvent'.op = "mousedown" =>
                \A a \in DOMAIN nodeState' :
                    nodeState'[a].showInfo => lastEvent'.target = <<a>> ]_vars

\* the popup of a node was opened by a press and a click on its info button
\* while the popup of a node above it was open: it is the only one open
C31_Witness ==
    /\ lastEvent.op = "info"
    /\ lastEvent.press.wasOpenAbove
    /\ OpenPopups = {lastEvent.path}
    /\ listeners = {lastEvent.path}

\* C32: the state of the view belongs to one mount: the step that shows the
\* mind-map view after the chat view leaves selectedSourceId empty, the
\* status Idle (not loading, no tree, no error), zoom at 1.0 and no node
\* mounted, whatever the state of the view was before the switch to chat
C32_RemountResets ==
    [][ (activeView = "chat" /\ activeView' = "mindmap") =>
            /\ selectedSourceId' = ""
            /\ ~isLoading'
            /\ mindMapData' = <<>>
            /\ error' = <<>>
            /\ zoom' = 10
            /\ DOMAIN nodeState' = {}
            /\ listeners' = {} ]_vars

\* a view that showed a zoomed tree was left for the chat and mounted again
C32_Witness ==
    /\ lastEvent.op = "mount"
    /\ lastEvent.after.hadTree
    /\ lastEvent.after.zoomed
    /\ activeView = "mindmap"
    /\ selectedSourceId = ""
    /\ mindMapData = <<>>
    /\ zoom = 10

\* the step removes the source that is selected
RemovesSelected ==
    /\ selectedSourceId \in SourceIds(sources)
    /\ selectedSourceId \notin SourceIds(sources')

\* the selection names a source that is no longer in the list
StaleSelection == selectedSourceId \notin {"", "all"} \cup SourceIds(sources)

\* generate() with a selection that names no source is a silent no-op
StaleGenerateNoOp ==
    (GenerateStep /\ StaleSelection) =>
        /\ ~lastEvent'.started
        /\ UNCHANGED <<viewState, requests, nodeState, listeners>>

\* C33 as stated: removing the selected source keeps the selection, leaves
\* the Generate button enabled and the displayed tree displayed, and a
\* generate() after it is a silent no-op
C33_RemovalKeepsView ==
    [][ /\ RemovesSelected =>
            /\ selectedSourceId' = selectedSourceId
            /\ GenerateEnabled => GenerateEnabled'
            /\ CanvasTree(activeView', sources', mindMapData') =
                    CanvasTree(activeView, sources, mindMapData)
        /\ StaleGenerateNoOp ]_vars

\* C33: removing the selected source keeps selectedSourceId and the rest of
\* the state of the view; while another source is left the Generate button
\* stays as it was and the displayed tree stays displayed; when the list is
\* empty neither button nor tree is rendered; a generate() with the removed
\* key is a silent no-op
C33_RemovalKeepsSelection ==
    [][ /\ RemovesSelected =>
            /\ UNCHANGED viewState
            /\ Len(sources') > 0 =>
                    /\ GenerateEnabled' = GenerateEnabled
                    /\ UNCHANGED <<nodeState, listeners>>
                    /\ CanvasTree(activeView', sources', mindMapData') =
                            CanvasTree(activeView, sources, mindMapData)
            /\ Len(sources') = 0 =>
                    /\ ~GenerateEnabled'
                    /\ CanvasTree(activeView', sources', mindMapData') = <<>>
                    /\ DOMAIN nodeState' = {}
        /\ StaleGenerateNoOp ]_vars

\* the selected source was removed while its tree was shown and another
\* source is left: the tree is still shown, and a click on Generate did
\* nothing
C33_Witness ==
    /\ lastEvent.op = "handleGenerate"
    /\ ~lastEvent.started
    /\ StaleSelection
    /\ Len(sources) > 0
    /\ CanvasTree(activeView, sources, mindMapData) # <<>>
    /\ GenerateEnabled

----------------------------------------------------------------------------
(* Properties of the chat *)

\* C34: through the chat UI sends are single-flight and the loading flag is
\* always released: a submit with blank input or during a send changes
\* nothing; a send starts only with no send pending, by a suggestion only
\* while the message list is empty; isChatLoading is true exactly while a
\* call of handleSendMessage awaits its stream, of which there is at most
\* one
C34_ChatSingleFlight ==
    /\ [](Len(sends) <= 1)
    /\ [](isChatLoading <=> sends # <<>>)
    /\ [][ (lastEvent'.op = "submit" /\ (Trim(input) = <<>> \/ isChatLoading)) =>
                UNCHANGED <<messages, isChatLoading, sends, sendCount>> ]_vars
    /\ [][ Len(sends') > Len(sends) =>
                (~isChatLoading /\ sends = <<>> /\ isChatLoading') ]_vars
    /\ [][ lastEvent'.op = "suggestion" => messages = <<>> ]_vars
    /\ [][ Len(sends') < Len(sends) => ~isChatLoading' ]_vars

\* a submit during the second send of a chat was rejected: one send is
\* pending and the flag is set
C34_Witness ==
    /\ lastEvent.op = "submit"
    /\ ~lastEvent.sent
    /\ lastEvent.loading
    /\ isChatLoading
    /\ Len(sends) = 1
    /\ sendCount = 2

\* the messages of a list that have a text, in their order
RECURSIVE WithText(_)
WithText(msgs) ==
    IF msgs = <<>> THEN <<>>
    ELSE IF Head(msgs).text = <<>> THEN WithText(Tail(msgs))
    ELSE <<Head(msgs)>> \o WithText(Tail(msgs))

\* m is an error message of the chat
IsErrorMessage(m) ==
    m.role = "model" /\ "isError" \in DOMAIN m /\ m.isError

\* C35: when the stream of a send fails, the messages without text are
\* removed and the others kept in their order, the user's message among
\* them; one error message (role model, isError) is appended as the last
\* message; the answer is kept right before it with the chunks received if
\* there were any, and is gone if there were none
C35_ChatFailure ==
    [][ lastEvent'.op = "chatFail" =>
            LET send == lastEvent'.send
                n == Len(messages')
            IN  /\ n >= 2
                /\ IsErrorMessage(messages'[n])
                /\ messages'[n].text # <<>>
                /\ SubSeq(messages', 1, n - 1) = WithText(messages)
                /\ \A k \in 1..(n - 1) : messages'[k].text # <<>>
                /\ \A k \in 1..(n - 1) : messages'[k].id # messages'[n].id
                /\ \E k \in 1..(n - 1) :
                        messages'[k].id = <<send.n, "user">>
                            /\ messages'[k].role = "user"
                /\ IF send.fullResponse # <<>>
                   THEN /\ messages'[n - 1].id = send.botMessageId
                        /\ messages'[n - 1].text = send.fullResponse
                   ELSE \A k \in 1..n : messages'[k].id # send.botMessageId ]_vars

\* the first send failed before any chunk and the second after a chunk: the
\* list holds question and error of the first, and question, partial answer
\* and error of the second
C35_Witness ==
    /\ lastEvent.op = "chatFail"
    /\ lastEvent.send.n = 2
    /\ lastEvent.send.fullResponse # <<>>
    /\ Len(messages) = 5
    /\ messages[2].id = <<1, "error">>
    /\ messages[4].id = <<2, "model">>
    /\ messages[5].id = <<2, "error">>

====
